---- MODULE Spec2Model ----
(***************************************************************************)
(* Model of cdk_changeset_reporter/cdk_changeset_reporter.py:              *)
(*   - the stack selection (add_stacks / reset_stack_selection),           *)
(*   - the change fetcher (gather_changes),                                *)
(*   - the report renderer (truncate / generate_table).                    *)
(* Strings that the code slices or compares are sequences of one-character *)
(* strings; a log is the sequence of the warnings emitted so far.          *)
(***************************************************************************)
EXTENDS Integers, Sequences, FiniteSets, TLC

\* ------------------------------------------------------------------ bounds
\* stacks in one cloud assembly
MaxStacks == 2
\* add_stacks / reset_stack_selection calls made on one reporter
MaxCalls == 3
\* change set summaries in one list_change_sets response
MaxSummaries == 2
\* length of the longest text handed to truncate
MaxTextLen == 56
\* changes in one change list handed to generate_table
MaxChanges == 3

\* ------------------------------------------------------- program constants
\* generate_table: self.truncate(50, resource_id)
MaxDisplayLength == 50

\* ------------------------------------------------------------- utilities
SeqsUpTo(S, n) == UNION {[1..k -> S] : k \in 0..n}

\* a Python dict is a function from its keys; {} is the one with no key
EmptyDict == [k \in {} |-> <<>>]

\* d[key] = value
DictSet(d, key, value) ==
    [k \in DOMAIN d \cup {key} |-> IF k = key THEN value ELSE d[k]]

\* ---------------------------------------------------------- the assembly
Star == <<"*">>

StackNames == {<<"a", "b">>, <<"c", "a", "b">>, <<"A", "b">>}

Regions == {"eu-west-1", "eu-west-2"}

Account == "123456789012"

\* the lookup role ARN of a stack artifact, as the bootstrap template writes
\* it: literal pieces and the three placeholders
LookupRoleArn ==
    <<"arn:", "${AWS::Partition}", ":iam::", "${AWS::AccountId}",
      ":role/cdk-lookup-role-", "${AWS::AccountId}", "-", "${AWS::Region}">>

\* a CloudFormationStackArtifact: stack_name, lookup_role.arn, environment
Artifacts ==
    {[stack_name |-> n, lookup_role_arn |-> LookupRoleArn,
      account |-> Account, region |-> r] : n \in StackNames, r \in Regions}

\* cloud_assembly.stacks_recursively; add_stacks only filters it into a list
\* that is tested for emptiness and merged into a set, so its order and
\* multiplicities are not observable
Assemblies == {A \in SUBSET Artifacts : Cardinality(A) <= MaxStacks}

Selectors ==
    {Star, <<>>, <<"a", "b">>, <<"b">>, <<"c">>, <<"a", "b", "c">>}

ChangeSetName == "cdk-change-set"

\* -------------------------------------------------------------- variables
VARIABLES
    assembly,       \* self.cloud_assembly (its stack artifacts)
    stacks,         \* self.stacks
    log,            \* warnings written to self.logger, oldest first
    selectors,      \* history: selectors passed since the last reset
    lastCall,       \* history: the last selection call and what it saw
    ncalls,         \* history: number of selection calls made
    pc,             \* position in gather_changes
    pending,        \* gather_changes: stacks the loop has not reached yet
    changes,        \* gather_changes: the local dict `changes`
    listed,         \* history: list_change_sets calls and their responses
    described,      \* history: describe_change_set calls and their responses
    current,        \* gather_changes: `stack`, the stack of the last iteration
    text,           \* truncate: argument
    truncated,      \* truncate: returned value
    tpc,            \* truncate / generate_table: called or not
    stack_name,     \* generate_table: argument
    reported_changes, \* generate_table: argument
    table,          \* generate_table: the rows handed to Table
    summary         \* generate_table: the <summary> line

selVars == <<assembly, stacks, log, selectors, lastCall, ncalls>>
gatherVars == <<pc, pending, changes, listed, described, current>>
renderVars == <<text, truncated, tpc, stack_name, reported_changes, table, summary>>
vars == <<selVars, gatherVars, renderVars>>

\* ------------------------------------------------------------- str methods
\* str.startswith
StartsWith(s, prefix) ==
    /\ Len(prefix) <= Len(s)
    /\ SubSeq(s, 1, Len(prefix)) = prefix

\* str.replace on an ARN cut at its placeholders
Replace(arn, old, new) ==
    [i \in DOMAIN arn |-> IF arn[i] = old THEN new ELSE arn[i]]

\* ------------------------------------------------------------- add_stacks
should_be_included_contains(s, stack_selector) ==
    \/ \E i \in 0..(Len(s.stack_name) - Len(stack_selector)) :
          SubSeq(s.stack_name, i + 1, i + Len(stack_selector)) = stack_selector
    \/ stack_selector = Star

should_be_included(s, stack_selector) ==
    StartsWith(s.stack_name, stack_selector) \/ stack_selector = Star

StackInfo(s) ==
    [name |-> s.stack_name,
     role_arn |-> Replace(Replace(Replace(s.lookup_role_arn,
                     "${AWS::Partition}", "aws"),
                     "${AWS::AccountId}", s.account),
                     "${AWS::Region}", s.region),
     region |-> s.region]

\* the list comprehension of add_stacks, as the set of its elements
SelectionResult(asm, stack_selector) ==
    {StackInfo(s) : s \in {a \in asm : should_be_included(a, stack_selector)}}

NoStacksWarning(stack_selector) ==
    [level |-> "WARNING", msg |-> "No stacks found using selector: ",
     arg |-> stack_selector]

WarnNoStacks_always(result) == TRUE

\* `if not result`
WarnNoStacks(result) == result = {}

SetUpdate_replace(old, result) == result

\* set.update
SetUpdate(old, result) == old \cup result

add_stacks(stack_selector) ==
    LET result == SelectionResult(assembly, stack_selector) IN
    /\ log' = IF WarnNoStacks(result)
              THEN Append(log, NoStacksWarning(stack_selector))
              ELSE log
    /\ stacks' = SetUpdate(stacks, result)

AddStacks ==
    /\ pc = "idle"
    /\ ncalls < MaxCalls
    /\ \E stack_selector \in Selectors :
          /\ add_stacks(stack_selector)
          /\ selectors' = selectors \cup {stack_selector}
          /\ lastCall' = [op |-> "add_stacks", selector |-> stack_selector,
                          before |-> stacks, logged |-> Len(log)]
    /\ ncalls' = ncalls + 1
    /\ UNCHANGED <<assembly, gatherVars, renderVars>>

ResetStackSelection ==
    /\ pc = "idle"
    /\ ncalls < MaxCalls
    /\ stacks' = {}
    /\ selectors' = {}
    /\ lastCall' = [op |-> "reset_stack_selection", selector |-> <<>>,
                    before |-> stacks, logged |-> Len(log)]
    /\ ncalls' = ncalls + 1
    /\ UNCHANGED <<assembly, log, gatherVars, renderVars>>

\* --------------------------------------------------------- gather_changes
\* one entry of list_change_sets(...)["Summaries"]
SummaryPool ==
    {[ChangeSetName |-> ChangeSetName, ExecutionStatus |-> "AVAILABLE"],
     [ChangeSetName |-> ChangeSetName, ExecutionStatus |-> "UNAVAILABLE"],
     [ChangeSetName |-> "other-change-set", ExecutionStatus |-> "AVAILABLE"]}

\* the responses the service may give to list_change_sets
SummaryLists == SeqsUpTo(SummaryPool, MaxSummaries)

\* the responses the service may give to describe_change_set: the change
\* list is opaque to gather_changes
DescribedChanges == {<<>>, <<"change-1", "change-2">>}

IsAvailable_any_name(c) == c.ExecutionStatus = "AVAILABLE"

\* the condition of the available_change_sets comprehension
IsAvailable(c) ==
    /\ c.ChangeSetName = ChangeSetName
    /\ c.ExecutionStatus = "AVAILABLE"

available_change_sets(Summaries) == SelectSeq(Summaries, IsAvailable)

NoChangesetsWarning ==
    [level |-> "WARNING", msg |-> "No changesets matching ... found",
     arg |-> ChangeSetName]

WarnNoChangesets_nonempty(d) == DOMAIN d # {}

\* `if not changes`
WarnNoChangesets(d) == DOMAIN d = {}

\* the list holds a change set of the configured name
HasNamed(Summaries) ==
    \E i \in DOMAIN Summaries : Summaries[i].ChangeSetName = ChangeSetName

\* the list holds an available change set of the configured name
HasNamedAvailable(Summaries) ==
    \E i \in DOMAIN Summaries :
        /\ Summaries[i].ChangeSetName = ChangeSetName
        /\ Summaries[i].ExecutionStatus = "AVAILABLE"

\* the place in the list of its first available change set of the
\* configured name, 0 when it has none
FirstNamedAvailable(Summaries) ==
    IF HasNamedAvailable(Summaries)
    THEN CHOOSE i \in DOMAIN Summaries :
            /\ HasNamedAvailable(<<Summaries[i]>>)
            /\ \A j \in 1..(i - 1) : ~HasNamedAvailable(<<Summaries[j]>>)
    ELSE 0

\* what the history keeps of one list_change_sets call: the request, whether
\* it succeeded, and what the returned list held
Listing(stack, ok, Summaries) ==
    [StackName |-> stack.name, region |-> stack.region, ok |-> ok,
     named |-> HasNamed(Summaries),
     available |-> HasNamedAvailable(Summaries),
     position |-> FirstNamedAvailable(Summaries)]

\* lines 112-115: the debug lines and `changes = {}`; the loop then walks
\* the set self.stacks in an order the program does not choose
GatherBegin ==
    /\ pc = "idle"
    /\ pc' = "loop"
    /\ pending' = stacks
    /\ changes' = EmptyDict
    /\ listed' = EmptyDict
    /\ described' = EmptyDict
    /\ UNCHANGED <<current, selVars, renderVars>>

\* an iteration in which assuming the role (deferred to the first request)
\* or list_change_sets raises: nothing catches it, gather_changes is left
IterationListRaises ==
    /\ pc = "loop"
    /\ \E stack \in pending :
          /\ current' = stack
          /\ pending' = pending \ {stack}
          /\ listed' = DictSet(listed, stack, Listing(stack, FALSE, <<>>))
    /\ pc' = "raised"
    /\ UNCHANGED <<changes, described, selVars, renderVars>>

\* an iteration whose list has no available change set of the wanted name
IterationNoneAvailable ==
    /\ pc = "loop"
    /\ \E stack \in pending, Summaries \in SummaryLists :
          /\ available_change_sets(Summaries) = <<>>
          /\ current' = stack
          /\ pending' = pending \ {stack}
          /\ listed' = DictSet(listed, stack, Listing(stack, TRUE, Summaries))
    /\ UNCHANGED <<pc, changes, described, selVars, renderVars>>

\* an iteration that finds one and whose describe_change_set raises
IterationDescribeRaises ==
    /\ pc = "loop"
    /\ \E stack \in pending, Summaries \in SummaryLists :
          /\ available_change_sets(Summaries) # <<>>
          /\ current' = stack
          /\ pending' = pending \ {stack}
          /\ listed' = DictSet(listed, stack, Listing(stack, TRUE, Summaries))
          /\ described' = DictSet(described, stack,
                [StackName |-> stack.name,
                 ChangeSetName |->
                     available_change_sets(Summaries)[1].ChangeSetName,
                 ok |-> FALSE, Changes |-> <<>>])
    /\ pc' = "raised"
    /\ UNCHANGED <<changes, selVars, renderVars>>

\* an iteration that finds one and stores its changes under the stack name
IterationDescribes ==
    /\ pc = "loop"
    /\ \E stack \in pending, Summaries \in SummaryLists,
          Changes \in DescribedChanges :
          /\ available_change_sets(Summaries) # <<>>
          /\ current' = stack
          /\ pending' = pending \ {stack}
          /\ listed' = DictSet(listed, stack, Listing(stack, TRUE, Summaries))
          /\ described' = DictSet(described, stack,
                [StackName |-> stack.name,
                 ChangeSetName |->
                     available_change_sets(Summaries)[1].ChangeSetName,
                 ok |-> TRUE, Changes |-> Changes])
          /\ changes' = DictSet(changes, stack.name, Changes)
    /\ UNCHANGED <<pc, selVars, renderVars>>

\* lines 133-135: the loop is exhausted
GatherReturn ==
    /\ pc = "loop"
    /\ pending = {}
    /\ log' = IF WarnNoChangesets(changes)
              THEN Append(log, NoChangesetsWarning)
              ELSE log
    /\ pc' = "returned"
    /\ UNCHANGED <<assembly, stacks, selectors, lastCall, ncalls,
                   pending, changes, listed, described, current, renderVars>>

\* gather_and_report, line 142: the one add_stacks call before gathering
GatherAndReportAddStacks ==
    /\ ncalls = 0
    /\ AddStacks

\* ---------------------------------------------------------------- truncate
\* a Python value that is either None or a str
None == [isNone |-> TRUE, value |-> <<>>]

Str(t) == [isNone |-> FALSE, value |-> t]

Min(a, b) == IF a <= b THEN a ELSE b

Max(a, b) == IF a >= b THEN a ELSE b

\* the slice index i of a sequence of length n, as Python clamps it
SliceIndex(i, n) == IF i < 0 THEN Max(n + i, 0) ELSE Min(i, n)

\* t[:stop]
SliceTo(t, stop) == SubSeq(t, 1, SliceIndex(stop, Len(t)))

\* t[start:]
SliceFrom(t, start) == SubSeq(t, SliceIndex(start, Len(t)) + 1, Len(t))

Ellipsis == <<"(", ".", ".", ".", ")">>

HalfKeep_no_marker(max_length) == max_length \div 2

\* int(max_length / 2 - 2.5): int() rounds toward zero
HalfKeep(max_length) ==
    LET twice == max_length - 5 IN
    IF twice >= 0 THEN twice \div 2 ELSE -((-twice) \div 2)

\* the return statement sits inside the `if`: a text that is not longer than
\* max_length falls off the end of the function
truncate(max_length, t) ==
    IF Len(t) > max_length
    THEN Str(SliceTo(t, HalfKeep(max_length))
             \o Ellipsis
             \o SliceFrom(t, -HalfKeep(max_length)))
    ELSE None

Alphabet == <<"S", "t", "a", "c", "k", "0", "1">>

Strides == {1, 3}

\* a text of n characters that repeats only after Len(Alphabet) characters
MkText(n, stride) ==
    [i \in 1..n |-> Alphabet[((i * stride) % Len(Alphabet)) + 1]]

Texts == {MkText(n, stride) : n \in 0..MaxTextLen, stride \in Strides}

Truncate ==
    /\ tpc = "idle"
    /\ truncated' = truncate(MaxDisplayLength, text)
    /\ tpc' = "done"
    /\ UNCHANGED <<text, stack_name, reported_changes, table, summary,
                   selVars, gatherVars>>

\* ---------------------------------------------------------- generate_table
Siren == "U+1F6A8"

Header ==
    <<"Action", "Requires Recreation", "Resource Type",
      "Logical Resource Id", "Change Target", "Change Reason">>

\* code points of the characters of the action names
Ord ==
    [c \in {"A", "M", "R", "d", "e", "f", "i", "m", "o", "v", "y"} |->
        CASE c = "A" -> 65 [] c = "M" -> 77 [] c = "R" -> 82
          [] c = "d" -> 100 [] c = "e" -> 101 [] c = "f" -> 102
          [] c = "i" -> 105 [] c = "m" -> 109 [] c = "o" -> 111
          [] c = "v" -> 118 [] c = "y" -> 121]

\* a < b for two str, as Python compares them: by code point, a proper
\* prefix first
RECURSIVE StrLess(_, _)
StrLess(a, b) ==
    IF b = <<>> THEN FALSE
    ELSE IF a = <<>> THEN TRUE
    ELSE IF Ord[Head(a)] # Ord[Head(b)] THEN Ord[Head(a)] < Ord[Head(b)]
    ELSE StrLess(Tail(a), Tail(b))

NeedsRecreation_always_only(requires_recreate) == requires_recreate = "Always"

\* line 179
NeedsRecreation(requires_recreate) ==
    requires_recreate = "Always" \/ requires_recreate = "Conditionally"

\* lines 171-177: the recreation requirement the row starts from
RequiresRecreate(change) ==
    LET details == change.ResourceChange.Details IN
    IF details # <<>> THEN details[1].Target.RequiresRecreation ELSE "No"

\* dict.get("Name", "")
GetName(target) == IF "Name" \in DOMAIN target THEN target.Name ELSE ""

\* lines 163-195: the row appended for one change
Row(change) ==
    LET details == change.ResourceChange.Details
        resource_id == truncate(MaxDisplayLength,
                                change.ResourceChange.LogicalResourceId)
        change_target == IF details # <<>> THEN GetName(details[1].Target) ELSE ""
        change_reason == IF details # <<>> THEN details[1].ChangeSource ELSE ""
        requires_recreate == RequiresRecreate(change)
    IN  <<change.ResourceChange.Action,
          IF NeedsRecreation(requires_recreate)
          THEN <<Siren, requires_recreate, Siren>>
          ELSE <<requires_recreate>>,
          change.ResourceChange.ResourceType,
          resource_id,
          change_target,
          change_reason>>

\* the loop of lines 161-195
Rows(cs) == [i \in DOMAIN cs |-> Row(cs[i])]

\* `recreate` after the loop
Recreate(cs) == \E i \in DOMAIN cs : NeedsRecreation(RequiresRecreate(cs[i]))

\* row goes behind the rows whose key is not greater than its own
RECURSIVE InsertByAction(_, _)
InsertByAction(sorted, row) ==
    IF sorted = <<>> THEN <<row>>
    ELSE IF StrLess(row[1], sorted[Len(sorted)][1])
         THEN Append(InsertByAction(SubSeq(sorted, 1, Len(sorted) - 1), row),
                     sorted[Len(sorted)])
         ELSE Append(sorted, row)

RECURSIVE SortByAction_ties_reversed(_)
SortByAction_ties_reversed(rows) ==
    IF rows = <<>> THEN <<>>
    ELSE InsertByAction(SortByAction_ties_reversed(Tail(rows)), Head(rows))

\* list.sort(key=lambda x: x[0]): ascending and stable
RECURSIVE SortByAction(_)
SortByAction(rows) ==
    IF rows = <<>> THEN <<>>
    ELSE InsertByAction(SortByAction(SubSeq(rows, 1, Len(rows) - 1)),
                        rows[Len(rows)])

RecreationNote == " (U+1F6A8 resources requires recreation U+1F6A8)"

\* the <summary> line of the returned markup
Summary(name, recreate) ==
    <<"Changeset for stack ", name, IF recreate THEN RecreationNote ELSE "">>

Actions == {<<"A", "d", "d">>, <<"M", "o", "d", "i", "f", "y">>,
            <<"R", "e", "m", "o", "v", "e">>}

Detail(requires, source) ==
    [Target |-> [Attribute |-> "Properties", Name |-> "Policy",
                 RequiresRecreation |-> requires],
     ChangeSource |-> source]

\* a detail whose target has no Name
UnnamedDetail(requires, source) ==
    [Target |-> [Attribute |-> "Tags", RequiresRecreation |-> requires],
     ChangeSource |-> source]

ShortId == <<"R", "o", "l", "e", "1">>

\* 51 characters: the shortest text longer than the display length
LongId == MkText(MaxDisplayLength + 1, 1)

\* the details and the logical id of the changes: the one without details and
\* the conditional one carry the long id
DetailsAndIds ==
    {<<<<>>, LongId>>,
     <<<<Detail("Never", "DirectModification"), Detail("Always", "Automatic")>>,
       ShortId>>,
     <<<<UnnamedDetail("Conditionally", "ResourceAttribute")>>, LongId>>,
     <<<<Detail("Always", "DirectModification")>>, ShortId>>}

ChangePool ==
    {[ResourceChange |->
        [Action |-> a, ResourceType |-> "AWS::IAM::Role",
         LogicalResourceId |-> di[2], Details |-> di[1]]] :
     a \in Actions, di \in DetailsAndIds}

ChangeLists == SeqsUpTo(ChangePool, MaxChanges)

GenerateTable ==
    /\ tpc = "idle"
    /\ table' = <<Header>> \o SortByAction(Rows(reported_changes))
    /\ summary' = Summary(stack_name, Recreate(reported_changes))
    /\ tpc' = "done"
    /\ UNCHANGED <<text, truncated, stack_name, reported_changes,
                   selVars, gatherVars>>

\* ------------------------------------------------------------------- Init
GatherIdle ==
    /\ pc = "idle"
    /\ pending = {}
    /\ changes = EmptyDict
    /\ listed = EmptyDict
    /\ described = EmptyDict
    /\ current = <<>>

RenderIdle ==
    /\ text = <<>>
    /\ truncated = None
    /\ tpc = "idle"
    /\ stack_name = ""
    /\ reported_changes = <<>>
    /\ table = <<>>
    /\ summary = <<>>

\* __init__: reset_stack_selection(), then the assembly is loaded
Init ==
    /\ assembly \in Assemblies
    /\ stacks = {}
    /\ log = <<>>
    /\ selectors = {}
    /\ lastCall = [op |-> "__init__", selector |-> <<>>, before |-> {},
                   logged |-> 0]
    /\ ncalls = 0
    /\ GatherIdle
    /\ RenderIdle

Next == AddStacks \/ ResetStackSelection

Spec == Init /\ [][Next]_vars

NextGather ==
    \/ GatherAndReportAddStacks
    \/ GatherBegin
    \/ IterationListRaises
    \/ IterationNoneAvailable
    \/ IterationDescribeRaises
    \/ IterationDescribes
    \/ GatherReturn

GatherSpec == Init /\ [][NextGather]_vars

\* the reporter of the rendering specifications: its selection is not used
SelectionIdle ==
    /\ assembly = {}
    /\ stacks = {}
    /\ log = <<>>
    /\ selectors = {}
    /\ lastCall = [op |-> "__init__", selector |-> <<>>, before |-> {},
                   logged |-> 0]
    /\ ncalls = 0

InitTruncate ==
    /\ SelectionIdle
    /\ GatherIdle
    /\ text \in Texts
    /\ truncated = None
    /\ tpc = "idle"
    /\ stack_name = ""
    /\ reported_changes = <<>>
    /\ table = <<>>
    /\ summary = <<>>

NextTruncate == Truncate

TruncateSpec == InitTruncate /\ [][NextTruncate]_vars

InitRender ==
    /\ SelectionIdle
    /\ GatherIdle
    /\ text = <<>>
    /\ truncated = None
    /\ tpc = "idle"
    /\ stack_name = "demo"
    /\ reported_changes \in ChangeLists
    /\ table = <<>>
    /\ summary = <<>>

NextRender == GenerateTable

RenderSpec == InitRender /\ [][NextRender]_vars

\* ------------------------------------------------- selection: properties
\* p is a prefix of n, character by character
IsPrefixOf(p, n) ==
    /\ Len(p) <= Len(n)
    /\ \A i \in 1..Len(p) : n[i] = p[i]

\* p occurs in n somewhere after its first character
OccursLater(p, n) ==
    \E i \in 2..Len(n) :
        /\ i + Len(p) - 1 <= Len(n)
        /\ \A j \in 1..Len(p) : n[i + j - 1] = p[j]

\* the artifacts a selector is meant to match
Matching(sel) ==
    IF sel = Star THEN assembly
    ELSE {a \in assembly : IsPrefixOf(sel, a.stack_name)}

Identity(a) == <<a.stack_name, a.region>>

Selected == {<<i.name, i.region>> : i \in stacks}

\* C2: starting from an empty selection, add_stacks(s) selects every stack
\* of the assembly when s is "*", and otherwise exactly the stacks whose name
\* starts with s (case-sensitive prefix match, no middle or end match).
C2_SelectorSemantics ==
    (lastCall.op = "add_stacks" /\ lastCall.before = {}) =>
        /\ Selected = {Identity(a) : a \in Matching(lastCall.selector)}
        /\ Cardinality(stacks) = Cardinality(Matching(lastCall.selector))

\* a literal selector picked one stack of an assembly of two and left out the
\* one that holds the selector behind another character
C2_Witness ==
    /\ lastCall.op = "add_stacks" /\ lastCall.before = {}
    /\ lastCall.selector = <<"a", "b">>
    /\ \E a \in assembly : OccursLater(lastCall.selector, a.stack_name)
    /\ Cardinality(assembly) = 2
    /\ Cardinality(stacks) = 1

\* C5: after any sequence of add_stacks and reset_stack_selection calls the
\* selection set is the duplicate-free union of the stacks matched by the
\* selectors passed since the last reset (empty right after a reset); so a
\* repeated add_stacks(p) changes nothing.
C5_UnionSinceReset ==
    /\ Selected = UNION {{Identity(a) : a \in Matching(sel)} : sel \in selectors}
    /\ Cardinality(stacks) = Cardinality(Selected)
    /\ (lastCall.op = "reset_stack_selection") => stacks = {}
    /\ (lastCall.op = "add_stacks" /\ ncalls >= 2
          /\ Matching(lastCall.selector) \subseteq
                {a \in assembly : Identity(a) \in
                    {<<i.name, i.region>> : i \in lastCall.before}})
        => stacks = lastCall.before

\* two different selectors matching a common stack were added and the
\* selection holds that stack once, next to one only the second selector
\* matched
C5_Witness ==
    /\ selectors = {<<>>, <<"a", "b">>}
    /\ lastCall.op = "add_stacks" /\ lastCall.selector = <<>>
    /\ lastCall.before # {}
    /\ ncalls = 3
    /\ Cardinality(stacks) = 2
    /\ Cardinality(lastCall.before) = 1

\* C10: add_stacks with a selector that matches no stack of the assembly
\* emits one warning naming the selector and leaves the selection as it
\* was; a call that matches at least one stack emits no warning.
C10_SelectionMiss ==
    lastCall.op = "add_stacks" =>
        IF Matching(lastCall.selector) = {}
        THEN /\ Len(log) = lastCall.logged + 1
             /\ log[Len(log)].level = "WARNING"
             /\ log[Len(log)].arg = lastCall.selector
             /\ stacks = lastCall.before
        ELSE Len(log) = lastCall.logged

\* a selector matching nothing was passed to a reporter whose selection was
\* not empty
C10_Witness ==
    /\ lastCall.op = "add_stacks"
    /\ Matching(lastCall.selector) = {}
    /\ assembly # {}
    /\ lastCall.before # {}
    /\ Len(log) = 1

\* ---------------------------------------------------- gather: properties
GatherOver == pc \in {"returned", "raised"}

\* the stacks whose own requests failed
Failed ==
    {s \in DOMAIN listed : ~listed[s].ok}
        \cup {s \in DOMAIN described : ~described[s].ok}

GatherWarnings == {i \in DOMAIN log : log[i] = NoChangesetsWarning}

\* C1: a failure while processing one selected stack does not abort the
\* processing of the remaining selected stacks: once gather_changes is
\* over, every other selected stack has been queried, and every other stack
\* that has a matching change set has its entry in the mapping.
C1_PerStackIsolation ==
    GatherOver =>
        \A s \in stacks \ Failed :
            /\ s \in DOMAIN listed
            /\ listed[s].available =>
                  s.name \in DOMAIN changes

\* C6 as stated: every selected stack whose listed change sets include one
\* of the configured name has that change set's change list under its name
\* in the returned mapping.
C6_AsStated ==
    pc = "returned" =>
        \A s \in stacks :
            listed[s].named =>
                /\ s.name \in DOMAIN changes
                /\ s \in DOMAIN described
                /\ changes[s.name] = described[s].Changes

\* C6 amended: when gather_changes returns, every selected stack whose
\* listed change sets include one of the configured name with execution
\* status AVAILABLE has an entry under its name, holding the change list
\* describe_change_set returned for the change set of that name of a selected
\* stack of that name (of the stack itself when no other selected stack
\* shares its name).
C6_NamedAvailableIsReported ==
    pc = "returned" =>
        \A s \in stacks :
            listed[s].available =>
                /\ s.name \in DOMAIN changes
                /\ s \in DOMAIN described
                /\ described[s].ChangeSetName = ChangeSetName
                /\ described[s].StackName = s.name
                /\ \E t \in {u \in stacks : u.name = s.name} :
                      /\ t \in DOMAIN described
                      /\ described[t].ok
                      /\ described[t].ChangeSetName = ChangeSetName
                      /\ changes[s.name] = described[t].Changes

\* gather_changes returned for two stacks of different names: one whose list
\* holds the wanted change set in second place and whose two changes are in
\* the mapping, one whose change set of that name is not available
C6_Witness ==
    /\ pc = "returned"
    /\ Cardinality(stacks) = 2
    /\ \E s, t \in stacks :
          /\ s.name # t.name
          /\ listed[s].position = 2
          /\ listed[s].available
          /\ changes[s.name] = <<"change-1", "change-2">>
          /\ listed[t].named
          /\ ~listed[t].available

C3_ShortTextUnchanged ==
    (tpc = "done" /\ Len(text) <= MaxDisplayLength) => truncated = Str(text)

\* C4: for every text longer than 50 characters truncate(50, text) returns
\* the first k characters, the 5-character marker "(...)" and the last k
\* characters, with one k for both, at most 50 characters and no longer than
\* the text.
C4_LongTextCollapsed ==
    (tpc = "done" /\ Len(text) > MaxDisplayLength) =>
        /\ ~truncated.isNone
        /\ Len(truncated.value) <= MaxDisplayLength
        /\ Len(truncated.value) <= Len(text)
        /\ \E k \in 1..Len(text) :
              /\ Len(truncated.value) = 2 * k + 5
              /\ \A i \in 1..k :
                    /\ truncated.value[i] = text[i]
                    /\ truncated.value[k + 5 + i] = text[Len(text) - k + i]
              /\ truncated.value[k + 1] = "("
              /\ \A i \in 2..4 : truncated.value[k + i] = "."
              /\ truncated.value[k + 5] = ")"

\* truncate was applied to a text of 51 characters, the shortest it cuts
C4_Witness ==
    /\ tpc = "done"
    /\ Len(text) = MaxDisplayLength + 1
    /\ ~truncated.isNone
    /\ truncated.value # text

\* the changes of the input whose first detail asks for a recreation
Recreating ==
    {i \in DOMAIN reported_changes :
        /\ reported_changes[i].ResourceChange.Details # <<>>
        /\ reported_changes[i].ResourceChange.Details[1].Target
              .RequiresRecreation \in {"Always", "Conditionally"}}

Body == Tail(table)

MarkedRows == {i \in DOMAIN Body : Body[i][2][1] = Siren}

\* C8: the summary line carries the recreation warning exactly when some
\* change has a first detail whose RequiresRecreation is "Always" or
\* "Conditionally" (a change without details counts as "No"), and exactly
\* the rows of such changes have their recreation cell marked.
C8_RecreationFlag ==
    tpc = "done" =>
        /\ summary[3] = RecreationNote <=> Recreating # {}
        /\ summary[3] # RecreationNote => summary[3] = ""
        /\ Cardinality(MarkedRows) = Cardinality(Recreating)
        /\ \A i \in DOMAIN Body :
              IF i \in MarkedRows
              THEN /\ Len(Body[i][2]) = 3
                   /\ Body[i][2][2] \in {"Always", "Conditionally"}
                   /\ Body[i][2][3] = Siren
              ELSE /\ Len(Body[i][2]) = 1
                   /\ Body[i][2][1] \notin {"Always", "Conditionally"}

\* a table was built from three changes: one without details, one whose
\* first detail says Never and second Always, one that is Conditionally;
\* only the last is marked
C8_Witness ==
    /\ tpc = "done"
    /\ Len(reported_changes) = 3
    /\ Cardinality(Recreating) = 1
    /\ \E i, j \in DOMAIN reported_changes :
          /\ reported_changes[i].ResourceChange.Details = <<>>
          /\ Len(reported_changes[j].ResourceChange.Details) = 2
    /\ summary[3] = RecreationNote

ActionRank(a) ==
    CASE a = <<"A", "d", "d">> -> 1
      [] a = <<"M", "o", "d", "i", "f", "y">> -> 2
      [] a = <<"R", "e", "m", "o", "v", "e">> -> 3

Bijections(n) ==
    {f \in [1..n -> 1..n] : \A i, j \in 1..n : f[i] = f[j] => i = j}

\* the row of a change, but for the Logical Resource Id cell
RowMatches(row, change) ==
    /\ row[1] = change.ResourceChange.Action
    /\ row[3] = change.ResourceChange.ResourceType
    /\ row[2][Len(row[2]) \div 2 + 1] =
          (IF change.ResourceChange.Details = <<>> THEN "No"
           ELSE change.ResourceChange.Details[1].Target.RequiresRecreation)
    /\ row[6] = (IF change.ResourceChange.Details = <<>> THEN ""
                 ELSE change.ResourceChange.Details[1].ChangeSource)
    /\ row[4] = truncate(MaxDisplayLength,
                         change.ResourceChange.LogicalResourceId)

\* C9: the header row comes first and the body rows are a permutation of
\* the input changes, one row per change, in ascending order of action, rows
\* of equal action in their input order.
C9_StableSortByAction ==
    tpc = "done" =>
        /\ table[1] = Header
        /\ Len(Body) = Len(reported_changes)
        /\ \E f \in Bijections(Len(Body)) :
              /\ \A i \in DOMAIN Body : RowMatches(Body[i], reported_changes[f[i]])
              /\ \A i, j \in DOMAIN Body :
                    i < j =>
                        \/ ActionRank(Body[i][1]) < ActionRank(Body[j][1])
                        \/ /\ Body[i][1] = Body[j][1]
                           /\ f[i] < f[j]

\* a table was built from Remove, Add, Add with two different Add changes:
\* the body is the first Add, the second Add, the Remove
C9_Witness ==
    /\ tpc = "done"
    /\ Len(reported_changes) = 3
    /\ reported_changes[1].ResourceChange.Action = <<"R", "e", "m", "o", "v", "e">>
    /\ reported_changes[2].ResourceChange.Action = <<"A", "d", "d">>
    /\ reported_changes[3].ResourceChange.Action = <<"A", "d", "d">>
    /\ reported_changes[2] # reported_changes[3]
    /\ Body[1] = Row(reported_changes[2])
    /\ Body[2] = Row(reported_changes[3])
    /\ Body[3][1] = reported_changes[1].ResourceChange.Action

====
